---- MODULE Spec2Model ----
(***************************************************************************)
(* The /stock_graph handler of src/main.py (get_stock_graph): session      *)
(* selection for the "1d" period, the provider fetches, the market-hours   *)
(* filter, the 5-minute resampling, the prior-business-day fallback, the   *)
(* pass-through of the other periods and the three response shapes.        *)
(*                                                                         *)
(* Dates are day numbers, day 0 being a Monday, so Weekday(d) = d % 7 is   *)
(* Python's date.weekday().  A time of day of `now` is in seconds; a       *)
(* sample's timestamp is in minutes since day 0, 00:00.  A provider stamp  *)
(* is a UTC stamp (naive frames are localized to UTC by the handler);      *)
(* New York wall-clock time is the stamp minus UTCOffset.                  *)
(***************************************************************************)
EXTENDS Integers, Sequences, FiniteSets, TLC

VARIABLES pc, ticker, period, now, tz_aware, target_date, fetches,
          data, market_data, graph_data, response

vars == <<pc, ticker, period, now, tz_aware, target_date, fetches,
          data, market_data, graph_data, response>>

(***************************************************************************)
(* Bounds of the model.                                                    *)
(***************************************************************************)
\* Most rows one provider answer holds.
MaxSamples == 2

(***************************************************************************)
(* Constants of the program.                                               *)
(***************************************************************************)
\* A missing value of a price column (prices of the model are >= 0).
NaN == -1
\* now.replace(hour=9, minute=30, second=0), in seconds of the day.
MarketOpen == 34200
\* now.replace(hour=16, minute=0, second=0), in seconds of the day.
MarketClose == 57600
\* between_time('09:30', '16:00'), in minutes of the day.
WindowOpen == 570
WindowClose == 960
\* resample('5T'), in minutes.
BucketWidth == 5
\* 'America/New_York' is UTC-5h (standard time), in minutes.
UTCOffset == 300
MinutesPerDay == 1440

(***************************************************************************)
(* The inputs.                                                             *)
(***************************************************************************)
Tickers == {"", "AAPL"}
Periods == {"1d", "7d", "30d", "3mo", "1y", "5y"}
\* One week of dates, Monday 7 .. Sunday 13.
Days == 7..13
\* Just before the open, the open, the close, just after the close.
NowSecs == {MarketOpen - 1, MarketOpen, MarketClose, MarketClose + 1}

\* The quotes a provider answer is made of: time of day (New York, minutes)
\* and the OHLCV columns.  09:29 and 16:01 are pre- and post-market quotes
\* (prepost=True); 09:34 is a row whose price columns are all missing.
Quotes ==
  { [tod |-> 569, open |-> 7,   high |-> 9,   low |-> 1,   close |-> 8,   volume |-> 1],
    [tod |-> 570, open |-> 4,   high |-> 6,   low |-> 3,   close |-> 5,   volume |-> 2],
    [tod |-> 573, open |-> 5,   high |-> 7,   low |-> 4,   close |-> 6,   volume |-> 4],
    [tod |-> 574, open |-> NaN, high |-> NaN, low |-> NaN, close |-> NaN, volume |-> 0],
    [tod |-> 960, open |-> 6,   high |-> 8,   low |-> 5,   close |-> 7,   volume |-> 8],
    [tod |-> 961, open |-> 2,   high |-> 9,   low |-> 1,   close |-> 3,   volume |-> 16] }

\* The rows the provider can hold for the session of date d, stamped in UTC.
RowsOn(d) ==
  { [ts |-> d * MinutesPerDay + q.tod + UTCOffset, open |-> q.open, high |-> q.high,
     low |-> q.low, close |-> q.close, volume |-> q.volume] : q \in Quotes }

\* stock.history(start=d, end=d+1): any rows of that session, each at most
\* once, in any order, possibly none.
Feed(d) ==
  { f \in UNION { [1..n -> RowsOn(d)] : n \in 0..MaxSamples } :
      \A i, j \in DOMAIN f : i # j => f[i] # f[j] }

(***************************************************************************)
(* Session selection (lines 240-252) and the fallback date (line 275).     *)
(***************************************************************************)
Weekday(d) == d % 7

LastFridayOffByOne(today) == today - ((Weekday(today) - 5) % 7)

LastFriday(today) == today - ((Weekday(today) - 4) % 7)

IsMarketOpenExclusive(sec) == MarketOpen <= sec /\ sec < MarketClose

IsMarketOpen(sec) == MarketOpen <= sec /\ sec <= MarketClose

TargetDate(n) ==
  IF Weekday(n.day) >= 5
  THEN LastFriday(n.day)
  ELSE IF IsMarketOpen(n.sec) THEN n.day ELSE n.day - 1

\* pd.Timestamp(d) - pd.offsets.BDay(1): the business day before d.
PrevBDay(d) ==
  CASE Weekday(d) = 0 -> d - 3
    [] Weekday(d) = 6 -> d - 2
    [] OTHER -> d - 1

(***************************************************************************)
(* The frame operations.                                                   *)
(***************************************************************************)
\* tz_localize('UTC').tz_convert('America/New_York') of one stamp.
TzConvert(ts) == ts - UTCOffset

TzConvertFrame(rows) == [i \in DOMAIN rows |-> [rows[i] EXCEPT !.ts = TzConvert(@)]]

TimeOfDay(ts) == ts % MinutesPerDay

InWindowExclusive(r) == WindowOpen <= TimeOfDay(r.ts) /\ TimeOfDay(r.ts) < WindowClose

InWindow(r) == WindowOpen <= TimeOfDay(r.ts) /\ TimeOfDay(r.ts) <= WindowClose

BetweenTime(rows) == SelectSeq(rows, InWindow)

RECURSIVE InsertByIndex(_, _)
\* r after every row of the sorted frame whose stamp is <= r's (stable).
InsertByIndex(sorted, r) ==
  IF sorted = <<>> \/ sorted[Len(sorted)].ts <= r.ts
  THEN Append(sorted, r)
  ELSE Append(InsertByIndex(SubSeq(sorted, 1, Len(sorted) - 1), r), sorted[Len(sorted)])

RECURSIVE SortByIndex(_)
\* The grouper's stable sort of a frame whose index is not monotonic.
SortByIndex(rows) ==
  IF rows = <<>> THEN <<>>
  ELSE InsertByIndex(SortByIndex(SubSeq(rows, 1, Len(rows) - 1)), rows[Len(rows)])

Floor5(ts) == ts - (ts % BucketWidth)

IsValue(x) == x # NaN

RECURSIVE FirstValue(_)
\* 'first': the first non-missing value, NaN when there is none.
FirstValue(xs) ==
  IF xs = <<>> THEN NaN
  ELSE IF IsValue(xs[1]) THEN xs[1] ELSE FirstValue(Tail(xs))

RECURSIVE LastValue(_)
\* 'last': the last non-missing value, NaN when there is none.
LastValue(xs) ==
  IF xs = <<>> THEN NaN
  ELSE IF IsValue(xs[Len(xs)]) THEN xs[Len(xs)] ELSE LastValue(SubSeq(xs, 1, Len(xs) - 1))

\* 'max': the greatest non-missing value, NaN when there is none.
MaxValue(xs) ==
  LET vs == { xs[i] : i \in DOMAIN xs } \ {NaN}
  IN IF vs = {} THEN NaN ELSE CHOOSE v \in vs : \A w \in vs : w <= v

\* 'min': the least non-missing value, NaN when there is none.
MinValue(xs) ==
  LET vs == { xs[i] : i \in DOMAIN xs } \ {NaN}
  IN IF vs = {} THEN NaN ELSE CHOOSE v \in vs : \A w \in vs : v <= w

RECURSIVE SumValue(_)
\* 'sum': 0 for an empty bucket.
SumValue(xs) == IF xs = <<>> THEN 0 ELSE xs[1] + SumValue(Tail(xs))

\* The row of an empty bin: no first, max, min or last, and a sum of 0.
NaNRow(start) ==
  [ts |-> start, open |-> NaN, high |-> NaN, low |-> NaN, close |-> NaN, volume |-> 0]

AggCloseFirst(sorted, start) ==
  LET InBucket(r) == start <= r.ts /\ r.ts < start + BucketWidth
      grp == SelectSeq(sorted, InBucket)
  IN IF grp = <<>> THEN NaNRow(start)
     ELSE [ts |-> start,
           open   |-> FirstValue([i \in DOMAIN grp |-> grp[i].open]),
           high   |-> MaxValue([i \in DOMAIN grp |-> grp[i].high]),
           low    |-> MinValue([i \in DOMAIN grp |-> grp[i].low]),
           close  |-> FirstValue([i \in DOMAIN grp |-> grp[i].close]),
           volume |-> SumValue([i \in DOMAIN grp |-> grp[i].volume])]

\* The row of the bin [start, start + 5min) of a sorted frame.
Agg(sorted, start) ==
  LET InBucket(r) == start <= r.ts /\ r.ts < start + BucketWidth
      grp == SelectSeq(sorted, InBucket)
  IN IF grp = <<>> THEN NaNRow(start)
     ELSE [ts |-> start,
           open   |-> FirstValue([i \in DOMAIN grp |-> grp[i].open]),
           high   |-> MaxValue([i \in DOMAIN grp |-> grp[i].high]),
           low    |-> MinValue([i \in DOMAIN grp |-> grp[i].low]),
           close  |-> LastValue([i \in DOMAIN grp |-> grp[i].close]),
           volume |-> SumValue([i \in DOMAIN grp |-> grp[i].volume])]

\* resample('5T').agg({...}): the frame sorted by stamp, then one row per
\* 5-minute bin from the bin of the earliest stamp to the bin of the latest
\* one; a bin that holds no row is a NaNRow.
Resample(rows) ==
  IF rows = <<>> THEN <<>>
  ELSE LET sorted == SortByIndex(rows)
           filled == { Floor5(sorted[i].ts) : i \in DOMAIN sorted }
           lo == Floor5(sorted[1].ts)
           hi == Floor5(sorted[Len(sorted)].ts)
       IN [i \in 1..((hi - lo) \div BucketWidth + 1) |->
             LET start == lo + (i - 1) * BucketWidth
             IN IF start \in filled THEN Agg(sorted, start) ELSE NaNRow(start)]

\* tz_localize('UTC') of a naive frame: the stamps keep their digits and are
\* UTC stamps from then on.
TzLocalizeUTC(rows) == rows

\* Lines 259-272 and 278-289: localize a naive frame, convert to New York,
\* filter to market hours, resample.
MarketData(rows, aware) ==
  IF ~aware
  THEN Resample(BetweenTime(TzConvertFrame(TzLocalizeUTC(rows))))
  ELSE Resample(BetweenTime(TzConvertFrame(rows)))

TooFewBarsAlways(frame) == Len(frame) >= 0

\* Line 274: the resampled frame is too sparse, the fallback session is used.
TooFewBars(frame) == Len(frame) < 2

HasClose(r) == IsValue(r.close)

Point(r) ==
  [time |-> r.ts, price |-> r.close, open |-> r.open, high |-> r.high,
   low |-> r.low, volume |-> r.volume]

\* Lines 294-301: the rows with a close, as chart points (the index of a
\* resampled frame is already New York time).
GraphData(frame) ==
  LET kept == SelectSeq(frame, HasClose)
  IN [i \in DOMAIN kept |-> Point(kept[i])]

\* Lines 317-324: the rows with a close, each stamp converted to New York.
HistGraphData(rows) == GraphData(TzConvertFrame(rows))

\* idx.tz_convert on a naive stamp raises; it is evaluated for the rows with
\* a close only.
HistRaises(rows, aware) == ~aware /\ SelectSeq(rows, HasClose) # <<>>

(***************************************************************************)
(* The responses.                                                          *)
(***************************************************************************)
NoResponse == [code |-> 0, status |-> "", keys |-> {}, data |-> <<>>]

\* Line 233.
NoTickerResponse == [code |-> 400, status |-> "", keys |-> {"error"}, data |-> <<>>]

\* Line 327.
NoDataResponse == [code |-> 404, status |-> "", keys |-> {"error"}, data |-> <<>>]

\* Lines 329-335.
SuccessResponse(graph) ==
  [code |-> 200, status |-> "success",
   keys |-> {"status", "ticker", "period", "data", "last_updated"}, data |-> graph]

\* Lines 337-343.
FailureResponse ==
  [code |-> 500, status |-> "error", keys |-> {"status", "error", "message"}, data |-> <<>>]

\* Lines 326-335.
Respond(graph) == IF graph = <<>> THEN NoDataResponse ELSE SuccessResponse(graph)

\* One call of stock.history, as it ended: which call, for which start date
\* and interval, and whether it returned a frame (ok) or raised.
Fetch(kind, start, interval, ok) ==
  [kind |-> kind, start |-> start, interval |-> interval, ok |-> ok]

\* Lines 306-315: the interval of a period other than "1d".
HistInterval(p) ==
  CASE p = "7d" -> "1h"
    [] p = "30d" -> "1d"
    [] p = "3mo" -> "1d"
    [] p = "1y" -> "1wk"
    [] OTHER -> "1d"

(***************************************************************************)
(* The handler.                                                            *)
(***************************************************************************)
Init ==
  /\ pc = "start"
  /\ ticker \in Tickers
  /\ period \in Periods
  /\ now \in [day : Days, sec : NowSecs]
  /\ tz_aware \in BOOLEAN
  /\ target_date = 0
  /\ fetches = <<>>
  /\ data = <<>>
  /\ market_data = <<>>
  /\ graph_data = <<>>
  /\ response = NoResponse

\* Lines 232-233.
NoTicker ==
  /\ pc = "start"
  /\ ticker = ""
  /\ pc' = "done"
  /\ response' = NoTickerResponse
  /\ UNCHANGED <<ticker, period, now, tz_aware, target_date, fetches,
                 data, market_data, graph_data>>

\* Lines 240-256: select the session and call the provider.
SelectSession ==
  /\ pc = "start"
  /\ ticker # ""
  /\ period = "1d"
  /\ target_date' = TargetDate(now)
  /\ pc' = "fetch_primary"
  /\ UNCHANGED <<ticker, period, now, tz_aware, fetches,
                 data, market_data, graph_data, response>>

\* Lines 305-315: call the provider for another period.
RequestHistory ==
  /\ pc = "start"
  /\ ticker # ""
  /\ period # "1d"
  /\ pc' = "fetch_hist"
  /\ UNCHANGED <<ticker, period, now, tz_aware, target_date, fetches,
                 data, market_data, graph_data, response>>

\* Lines 255-274, 293-303, 326-335: the primary answer.
PrimaryReturns ==
  /\ pc = "fetch_primary"
  /\ \E rows \in Feed(target_date) :
       /\ fetches' = Append(fetches, Fetch("primary", target_date, "1m", TRUE))
       /\ data' = rows
       /\ IF rows = <<>>
          THEN /\ graph_data' = <<>>
               /\ response' = Respond(<<>>)
               /\ pc' = "done"
               /\ UNCHANGED market_data
          ELSE /\ market_data' = MarketData(rows, tz_aware)
               /\ IF TooFewBars(market_data')
                  THEN /\ pc' = "fetch_fallback"
                       /\ UNCHANGED <<graph_data, response>>
                  ELSE /\ graph_data' = GraphData(market_data')
                       /\ response' = Respond(graph_data')
                       /\ pc' = "done"
  /\ UNCHANGED <<ticker, period, now, tz_aware, target_date>>

\* Lines 255-256, 337-343: the primary call raises.
PrimaryRaises ==
  /\ pc = "fetch_primary"
  /\ fetches' = Append(fetches, Fetch("primary", target_date, "1m", FALSE))
  /\ response' = FailureResponse
  /\ pc' = "done"
  /\ UNCHANGED <<ticker, period, now, tz_aware, target_date,
                 data, market_data, graph_data>>

\* Lines 275-301, 326-335: the fallback answer.
FallbackReturns ==
  /\ pc = "fetch_fallback"
  /\ \E rows \in Feed(PrevBDay(target_date)) :
       /\ fetches' = Append(fetches,
                            Fetch("fallback", PrevBDay(target_date), "1m", TRUE))
       /\ data' = rows
       /\ market_data' = IF rows = <<>> THEN <<>> ELSE MarketData(rows, tz_aware)
  /\ graph_data' = GraphData(market_data')
  /\ response' = Respond(graph_data')
  /\ pc' = "done"
  /\ UNCHANGED <<ticker, period, now, tz_aware, target_date>>

\* Lines 276-277, 337-343: the fallback call raises.
FallbackRaises ==
  /\ pc = "fetch_fallback"
  /\ fetches' = Append(fetches,
                       Fetch("fallback", PrevBDay(target_date), "1m", FALSE))
  /\ response' = FailureResponse
  /\ pc' = "done"
  /\ UNCHANGED <<ticker, period, now, tz_aware, target_date,
                 data, market_data, graph_data>>

\* Lines 306-335: the answer for another period.
HistoryReturns ==
  /\ pc = "fetch_hist"
  /\ \E rows \in Feed(now.day) :
       /\ fetches' = Append(fetches,
                            Fetch("history", now.day, HistInterval(period), TRUE))
       /\ data' = rows
       /\ IF HistRaises(rows, tz_aware)
          THEN /\ response' = FailureResponse
               /\ UNCHANGED graph_data
          ELSE /\ graph_data' = HistGraphData(rows)
               /\ response' = Respond(graph_data')
  /\ pc' = "done"
  /\ UNCHANGED <<ticker, period, now, tz_aware, target_date, market_data>>

\* Lines 306-315, 337-343: the call for another period raises.
HistoryRaises ==
  /\ pc = "fetch_hist"
  /\ fetches' = Append(fetches,
                       Fetch("history", now.day, HistInterval(period), FALSE))
  /\ response' = FailureResponse
  /\ pc' = "done"
  /\ UNCHANGED <<ticker, period, now, tz_aware, target_date,
                 data, market_data, graph_data>>

Next ==
  \/ NoTicker
  \/ SelectSession
  \/ RequestHistory
  \/ PrimaryReturns
  \/ PrimaryRaises
  \/ FallbackReturns
  \/ FallbackRaises
  \/ HistoryReturns
  \/ HistoryRaises

Spec == Init /\ [][Next]_vars

TypeOK ==
  /\ pc \in {"start", "fetch_primary", "fetch_fallback", "fetch_hist", "done"}
  /\ ticker \in Tickers
  /\ period \in Periods
  /\ tz_aware \in BOOLEAN
  /\ Len(fetches) <= 2
  /\ response.code \in {0, 200, 400, 404, 500}

(***************************************************************************)
(* The properties.  They are stated on the request, the frame the provider *)
(* returned last (data) and the response, with definitions of their own.   *)
(***************************************************************************)
\* A "1d" request whose session has been selected.
SessionSelected == pc # "start" /\ ticker # "" /\ period = "1d"

\* A "1d" request that has been answered.
Done1d == pc = "done" /\ ticker # "" /\ period = "1d"

\* New York wall-clock stamp of row j of the frame returned last.
LocalTs(j) == data[j].ts - UTCOffset

\* The rows of that frame inside the trading window.
WindowRows ==
  { j \in DOMAIN data : (LocalTs(j) % 1440) >= 570 /\ (LocalTs(j) % 1440) <= 960 }

\* The in-window rows whose stamp lies in the 5-minute bucket starting at t.
BucketRows(t) == { j \in WindowRows : t <= LocalTs(j) /\ LocalTs(j) < t + 5 }

\* Row j comes no later than row k by timestamp, input order breaking ties.
Before(j, k) == LocalTs(j) < LocalTs(k) \/ (LocalTs(j) = LocalTs(k) /\ j <= k)

RECURSIVE VolumeOf(_)
VolumeOf(S) ==
  IF S = {} THEN 0
  ELSE LET j == CHOOSE x \in S : TRUE IN data[j].volume + VolumeOf(S \ {j})

\* C1: for a "1d" request whose fetches all returned, fewer than 2 Bars of
\* the primary session (none included, also when the primary frame was empty)
\* means that the fallback session was fetched, and the returned Bars are then
\* all Bars of the fallback date, none of the primary date.
C1_FallbackWhenSparse ==
  (Done1d /\ \A i \in DOMAIN fetches : fetches[i].ok) =>
     /\ Len(fetches) = 1 =>
          Cardinality({ LocalTs(j) - (LocalTs(j) % 5) :
                          j \in { k \in WindowRows : data[k].close # NaN } }) >= 2
     /\ Len(fetches) = 2 =>
          \A i \in DOMAIN response.data :
             /\ response.data[i].time \div 1440 = fetches[2].start
             /\ response.data[i].time \div 1440 # target_date

\* C2: when the primary fetch of a "1d" request raises, the fallback session
\* is still fetched.
C2_FallbackAfterPrimaryRaises ==
  (Done1d /\ Len(fetches) >= 1 /\ ~fetches[1].ok) =>
     (Len(fetches) = 2 /\ fetches[2].kind = "fallback")

\* C3: before the open on a weekday, or on a weekend, the target date is the
\* most recent business day: a Monday-to-Friday date before today with only
\* weekend days between it and today.
C3_TargetIsBusinessDay ==
  (SessionSelected /\ (Weekday(now.day) >= 5 \/ now.sec < 34200)) =>
     /\ Weekday(target_date) <= 4
     /\ target_date < now.day
     /\ \A d \in (target_date + 1)..(now.day - 1) : Weekday(d) >= 5

\* C4: on a weekday the target date is today when 09:30:00 <= now <= 16:00:00
\* (both inclusive) and yesterday (today minus one calendar day) otherwise.
C4_WeekdayTarget ==
  (SessionSelected /\ Weekday(now.day) <= 4) =>
     IF 34200 <= now.sec /\ now.sec <= 57600
     THEN target_date = now.day
     ELSE target_date = now.day - 1

\* A weekday request at exactly 16:00:00 that targets today.
C4_Witness ==
  SessionSelected /\ Weekday(now.day) <= 4 /\ now.sec = 57600 /\ target_date = now.day

\* C5: on a Saturday or a Sunday, at any time of day, the target date is the
\* most recent Friday: 1 day back on Saturday, 2 days back on Sunday.
C5_WeekendTarget ==
  (SessionSelected /\ Weekday(now.day) >= 5) =>
     /\ Weekday(target_date) = 4
     /\ now.day - target_date = (IF Weekday(now.day) = 5 THEN 1 ELSE 2)

\* A Sunday request inside market hours that targets the Friday before.
C5_Witness ==
  /\ SessionSelected
  /\ Weekday(now.day) = 6
  /\ now.sec = 34200
  /\ target_date = now.day - 2

\* C6: a request whose data is empty after all processing is answered with
\* an error response carrying status "error", an error and a message.
C6_EmptyDataIsErrorResponse ==
  (pc = "done" /\ ticker # "" /\ graph_data = <<>>) =>
     /\ response.status = "error"
     /\ {"status", "error", "message"} \subseteq response.keys

\* C7: every returned Bar of a "1d" request starts inside [09:30, 16:00] and
\* its open, high, low, close and volume come from the rows of its bucket that
\* are inside [09:30, 16:00] alone; a row at exactly 09:30 or exactly 16:00
\* with a close has its Bar in the response.
C7_OnlyWindowRowsContribute ==
  (Done1d /\ response.code = 200) =>
     /\ \A i \in DOMAIN response.data :
          LET b == response.data[i]
              S == BucketRows(b.time)
          IN /\ (b.time % 1440) >= 570 /\ (b.time % 1440) <= 960
             /\ b.volume = VolumeOf(S)
             /\ b.open \in { data[j].open : j \in S }
             /\ b.price \in { data[j].close : j \in S }
             /\ b.high \in { data[j].high : j \in S }
             /\ b.low \in { data[j].low : j \in S }
             /\ \A j \in S : data[j].high = NaN \/ data[j].high <= b.high
             /\ \A j \in S : data[j].low = NaN \/ b.low <= data[j].low
     /\ \A j \in DOMAIN data :
          ((LocalTs(j) % 1440) \in {570, 960} /\ data[j].close # NaN) =>
             \E i \in DOMAIN response.data :
                response.data[i].time = LocalTs(j) - (LocalTs(j) % 5)

\* A fallback session of a 16:00 row and a 16:01 row, answered with the one
\* Bar of the 16:00 row.
C7_Witness ==
  /\ Done1d
  /\ Len(fetches) = 2
  /\ response.code = 200
  /\ \E j \in DOMAIN data : (LocalTs(j) % 1440) = 961
  /\ \E j \in DOMAIN data : (LocalTs(j) % 1440) = 960
  /\ Len(response.data) = 1
  /\ response.data[1].volume = 8
  /\ response.data[1].price = 7

\* C8: the Bars of a success response are strictly increasing in timestamp.
C8_StrictlyIncreasing ==
  (pc = "done" /\ response.code = 200) =>
     \A i, j \in DOMAIN response.data :
        i < j => response.data[i].time < response.data[j].time

\* C9: for a period other than "1d", a frame without timezone that holds a
\* row with a close yields a success response with one point per row with a
\* close, in order, stamped in New York time.
C9_NaiveHistorySucceeds ==
  (/\ pc = "done" /\ ticker # "" /\ period # "1d"
   /\ Len(fetches) = 1 /\ fetches[1].ok
   /\ ~tz_aware
   /\ \E j \in DOMAIN data : data[j].close # NaN) =>
     /\ response.code = 200
     /\ Len(response.data) = Cardinality({ j \in DOMAIN data : data[j].close # NaN })
     /\ \A i \in DOMAIN response.data :
           \E j \in DOMAIN data :
              /\ response.data[i].time = LocalTs(j)
              /\ response.data[i].price = data[j].close

\* C10 as stated: every returned Bar of a "1d" request has the open of the
\* first and the close of the last in-window row of its bucket by timestamp,
\* the maximum high, the minimum low and the sum of the volumes.
C10_FirstAndLastRow ==
  (Done1d /\ response.code = 200) =>
     \A i \in DOMAIN response.data :
        LET b == response.data[i]
            S == BucketRows(b.time)
        IN /\ S # {}
           /\ b.open = data[CHOOSE j \in S : \A k \in S : Before(j, k)].open
           /\ b.price = data[CHOOSE j \in S : \A k \in S : Before(k, j)].close
           /\ b.volume = VolumeOf(S)

\* The in-window rows of the bucket at t that have a value in column c.
Valued(t, c) == { j \in BucketRows(t) : data[j][c] # NaN }

\* C10, amended: every returned Bar of a "1d" request is the reduction of
\* the in-window rows of its bucket: the open of the first row by timestamp
\* that has an open, the close of the last row by timestamp that has a close,
\* the maximum of the highs and the minimum of the lows that are present, the
\* sum of the volumes; there is one Bar for each bucket that holds an
\* in-window row with a close, and no other Bar.
C10_BucketReduction ==
  (Done1d /\ response.code = 200) =>
     /\ \A i \in DOMAIN response.data :
          LET b == response.data[i]
              t == b.time
          IN /\ t % 5 = 0
             /\ Valued(t, "close") # {}
             /\ b.price = data[CHOOSE j \in Valued(t, "close") :
                                 \A k \in Valued(t, "close") : Before(k, j)].close
             /\ b.open = (IF Valued(t, "open") = {} THEN NaN
                          ELSE data[CHOOSE j \in Valued(t, "open") :
                                      \A k \in Valued(t, "open") : Before(j, k)].open)
             /\ b.high = (IF Valued(t, "high") = {} THEN NaN
                          ELSE data[CHOOSE j \in Valued(t, "high") :
                                      \A k \in Valued(t, "high") :
                                         data[k].high <= data[j].high].high)
             /\ b.low = (IF Valued(t, "low") = {} THEN NaN
                         ELSE data[CHOOSE j \in Valued(t, "low") :
                                     \A k \in Valued(t, "low") :
                                        data[j].low <= data[k].low].low)
             /\ b.volume = VolumeOf(BucketRows(t))
     /\ \A j \in WindowRows :
          data[j].close # NaN =>
             Cardinality({ i \in DOMAIN response.data :
                             response.data[i].time = LocalTs(j) - (LocalTs(j) % 5) }) = 1

\* A session whose frame holds the 09:33 row before the 09:30 row, answered
\* with the one Bar that opens at the 09:30 open and closes at the 09:33 close.
C10_Witness ==
  /\ Done1d
  /\ response.code = 200
  /\ Len(data) = 2
  /\ (LocalTs(1) % 1440) = 573
  /\ (LocalTs(2) % 1440) = 570
  /\ Len(response.data) = 1
  /\ response.data[1].open = 4
  /\ response.data[1].price = 6
  /\ response.data[1].high = 7
  /\ response.data[1].low = 3
  /\ response.data[1].volume = 6

\* The calls of stock.history issued so far: the ones that ended and the one
\* in flight.
Issued == Len(fetches) + (IF pc \in {"fetch_primary", "fetch_fallback", "fetch_hist"} THEN 1 ELSE 0)

\* The 5-minute buckets of the frame returned last that hold an in-window row
\* with a close.
BarBuckets ==
  { LocalTs(j) - (LocalTs(j) % 5) : j \in { k \in WindowRows : data[k].close # NaN } }

\* C11: a request performs at most two fetches, never two at a time; the
\* fallback fetch is issued only for period "1d", only when the primary fetch
\* has returned and its frame, aggregated, has fewer than 2 bars; an answered
\* request (with a ticker) for another period has performed exactly one fetch.
C11_SequentialFetches ==
  /\ Issued <= 2
  /\ \A i \in DOMAIN fetches :
        fetches[i].kind = "fallback" =>
           /\ i = 2
           /\ period = "1d"
           /\ fetches[1].kind = "primary"
           /\ fetches[1].ok
  /\ pc = "fetch_fallback" =>
        /\ period = "1d"
        /\ Len(fetches) = 1
        /\ fetches[1].kind = "primary"
        /\ fetches[1].ok
        /\ Len(market_data) < 2
        /\ Cardinality(BarBuckets) < 2
  /\ pc = "fetch_primary" => (period = "1d" /\ fetches = <<>>)
  /\ pc = "fetch_hist" => (period # "1d" /\ fetches = <<>>)
  /\ (pc = "done" /\ ticker # "" /\ period # "1d") =>
        (Len(fetches) = 1 /\ fetches[1].kind = "history")

\* A "1d" request answered from the fallback session: the primary fetch
\* returned, then the fallback fetch did.
C11_Witness ==
  /\ Done1d
  /\ Len(fetches) = 2
  /\ fetches[1].kind = "primary" /\ fetches[1].ok
  /\ fetches[2].kind = "fallback" /\ fetches[2].ok
  /\ fetches[2].start = PrevBDay(target_date)
  /\ response.code = 200
====
